---- MODULE Spec2Model ----
(***************************************************************************)
(* Model of tt.py: the bass-peak driven video cutter.                      *)
(*                                                                         *)
(* Times are counted in audio samples, so every timestamp is an integer:   *)
(* song_duration is len(y) samples, frame f of the spectrogram sits at     *)
(* f * HopLength samples (librosa.frames_to_time) and the spectrogram of   *)
(* a centred STFT has 1 + len(y) \div HopLength frames.  Python's 0-based  *)
(* index k is index k + 1 of the TLA+ sequence.                            *)
(***************************************************************************)
EXTENDS Integers, Sequences, FiniteSets

\* ------------------------------------------------------------- bounds
\* Samples between two STFT frames (librosa's default is 512; scaled down).
HopLength == 2
\* Longest audio file, in samples.
MaxSamples == 10
\* Largest value of one frame of the bass-energy curve.
MaxEnergy == 2
\* Longest source video, in the same unit as the audio.
MaxVideoDuration == 3
\* Worker threads start_processing may create.
MaxRuns == 2
\* "Missing Information" warnings counted.
MaxWarnings == 1

\* ------------------------------------------------- program constants
\* height = np.max(bass_energy) * 0.7, kept as the fraction 7/10
HeightNum == 7
HeightDen == 10

VARIABLES
    audio_entry,    \* text of the three tk.Entry widgets
    video_entry,
    output_entry,
    warnings,       \* messagebox.showwarning calls made by start_processing
    threads,        \* threading.Thread objects started so far
    runs,           \* runs[r]: the frame of the r-th process_files call
    disk,           \* what the selected audio and video files hold
    output_file     \* state of the file at output_path

vars == <<audio_entry, video_entry, output_entry, warnings, threads, runs,
          disk, output_file>>

RunIds == 1..MaxRuns

AudioPath == "song.mp3"
VideoPath == "video.mp4"
OutputPath == "out.mp4"

\* --------------------------------------------------------- sequences
RECURSIVE SumSeq(_)
SumSeq(s) == IF s = <<>> THEN 0 ELSE Head(s) + SumSeq(Tail(s))

RECURSIVE MaxSeq(_)
MaxSeq(s) == IF Len(s) = 1 THEN s[1]
             ELSE LET m == MaxSeq(Tail(s)) IN IF s[1] > m THEN s[1] ELSE m

RECURSIVE Insert(_, _)
Insert(x, s) == IF s = <<>> THEN <<x>>
                ELSE IF x <= Head(s) THEN <<x>> \o s
                ELSE <<Head(s)>> \o Insert(x, Tail(s))

\* np.sort: ascending, duplicates kept
RECURSIVE np_sort(_)
np_sort(s) == IF s = <<>> THEN <<>> ELSE Insert(Head(s), np_sort(Tail(s)))

\* ------------------------------------------------------ audio analysis
\* Number of columns of librosa.stft(y) for len(y) = n (center=True).
Frames(n) == 1 + n \div HopLength

\* librosa.frames_to_time of the frame at TLA+ index k
frames_to_time(k) == (k - 1) * HopLength

\* a variant that also takes a level run touching its neighbours as a maximum
IsLocalMaximumLoose(x, m) ==
    \E l \in 2..(Len(x) - 1) : \E r \in l..(Len(x) - 1) :
        /\ \A j \in l..r : x[j] = x[l]
        /\ x[l - 1] <= x[l]
        /\ x[r + 1] <= x[r]
        /\ m = (l + r) \div 2

\* scipy's local maxima: a run x[l..r] of equal values, strictly higher than
\* both neighbours, never touching either end of x; the peak is its midpoint.
IsLocalMaximum(x, m) ==
    \E l \in 2..(Len(x) - 1) : \E r \in l..(Len(x) - 1) :
        /\ \A j \in l..r : x[j] = x[l]
        /\ x[l - 1] < x[l]
        /\ x[r + 1] < x[r]
        /\ m = (l + r) \div 2

\* height=np.max(bass_energy) * 0.7: peaks at least as high are kept
HighEnough(x, m) == HeightDen * x[m] >= HeightNum * MaxSeq(x)

RECURSIVE PeaksFrom(_, _)
PeaksFrom(x, k) ==
    IF k > Len(x) THEN <<>>
    ELSE (IF IsLocalMaximum(x, k) /\ HighEnough(x, k) THEN <<k>> ELSE <<>>)
         \o PeaksFrom(x, k + 1)

\* find_peaks(bass_energy, height=...): ascending indices
find_peaks(x) == PeaksFrom(x, 1)

\* times[peaks]
PeakTimes(x) == LET p == find_peaks(x) IN [k \in 1..Len(p) |-> frames_to_time(p[k])]

\* a variant that leaves the end of the song out of the cut times
CutTimesNoEnd(peak_times, song_duration) == np_sort(<<0>> \o peak_times)

\* np.sort(np.concatenate(([0], peak_times, [song_duration])))
CutTimes(peak_times, song_duration) ==
    np_sort(<<0>> \o peak_times \o <<song_duration>>)

\* ------------------------------------------------------------ messages
Msg(t) == [text |-> t, i |-> 0, total |-> 0]
ClipMsg(i, total) == [text |-> "clips processed...", i |-> i, total |-> total]

\* ---------------------------------------------------------- run frames
IdleRun == [pc |-> "idle", audio_path |-> "", video_path |-> "", output_path |-> "",
            song_duration |-> 0, bass_energy |-> <<>>, cut_times |-> <<>>,
            video_duration |-> 0, total_clips |-> 0, i |-> 0,
            requests |-> <<>>, clips |-> <<>>, final_duration |-> 0,
            written |-> "none", msgs |-> <<>>, notes |-> <<>>]

\* threading.Thread(target=run).start(): process_files entered with the paths
\* read from the entries
StartedRun(a, v, o) == [IdleRun EXCEPT !.pc = "load", !.audio_path = a,
                                       !.video_path = v, !.output_path = o]

\* a variant that swallows the exception: except Exception: pass
FailSilently(s, e) == [s EXCEPT !.pc = "done"]

\* except Exception as e: messagebox.showerror(...); process_files returns
Fail(s, e) == [s EXCEPT !.pc = "done",
                        !.notes = Append(@, [kind |-> "showerror", detail |-> e])]

\* progress_callback(message)
Progress(s, m) == [s EXCEPT !.msgs = Append(@, m)]

\* An audio file: its length and the bass-energy curve its spectrogram gives,
\* one value per frame; a file with no sample has no energy.
AudioFiles == UNION {[samples : {n},
                      bass_energy : [1..Frames(n) -> 0..(IF n = 0 THEN 0 ELSE MaxEnergy)]]
                     : n \in 0..MaxSamples}
Disks == [audio : AudioFiles, video_duration : 1..MaxVideoDuration]

Init == /\ audio_entry = AudioPath
        /\ video_entry = VideoPath
        /\ output_entry = OutputPath
        /\ warnings = 0
        /\ threads = 1
        /\ disk \in Disks
        /\ runs = [r \in RunIds |-> IF r = 1 THEN StartedRun(AudioPath, VideoPath, OutputPath)
                                    ELSE IdleRun]
        /\ output_file = "absent"

Gui == <<audio_entry, video_entry, output_entry, warnings, threads>>

\* ------------------------------------------------- process_files steps
\* y, sr = librosa.load(audio_path); song_duration = librosa.get_duration(...)
LoadOk(s) == [s EXCEPT !.pc = "stft", !.song_duration = disk.audio.samples]

Load(r) ==
    /\ runs[r].pc = "load"
    /\ \/ runs' = [runs EXCEPT ![r] = LoadOk(@)]
       \/ runs' = [runs EXCEPT ![r] = Fail(@, "load")]
    /\ UNCHANGED <<Gui, disk, output_file>>

\* "Calculating STFT...", then the spectrogram and its bass band summed per frame
StftOk(s) == [Progress(s, Msg("Calculating STFT...")) EXCEPT
                 !.pc = "peaks", !.bass_energy = disk.audio.bass_energy]

Stft(r) ==
    /\ runs[r].pc = "stft"
    /\ \/ runs' = [runs EXCEPT ![r] = StftOk(@)]
       \/ runs' = [runs EXCEPT ![r] = Fail(Progress(@, Msg("Calculating STFT...")), "stft")]
    /\ UNCHANGED <<Gui, disk, output_file>>

\* "Detecting peak points...", find_peaks, cut_times; np.max of an empty curve raises
PeaksStep(s) ==
    LET t == Progress(s, Msg("Detecting peak points..."))
    IN  IF s.bass_energy = <<>> THEN Fail(t, "peaks")
        ELSE [t EXCEPT !.pc = "video",
                       !.cut_times = CutTimes(PeakTimes(s.bass_energy), s.song_duration)]

Peaks(r) ==
    /\ runs[r].pc = "peaks"
    /\ runs' = [runs EXCEPT ![r] = PeaksStep(@)]
    /\ UNCHANGED <<Gui, disk, output_file>>

\* "Loading video...", VideoFileClip, video.duration, clips = [], total_clips
VideoOk(s) == [Progress(s, Msg("Loading video...")) EXCEPT
                  !.pc = "loop", !.video_duration = disk.video_duration,
                  !.clips = <<>>, !.total_clips = Len(s.cut_times) - 1, !.i = 0]

LoadVideo(r) ==
    /\ runs[r].pc = "video"
    /\ \/ runs' = [runs EXCEPT ![r] = VideoOk(@)]
       \/ runs' = [runs EXCEPT ![r] = Fail(Progress(@, Msg("Loading video...")), "video")]
    /\ UNCHANGED <<Gui, disk, output_file>>

\* clip_duration = cut_times[i + 1] - cut_times[i]
ClipDuration(cut_times, i) == cut_times[i + 2] - cut_times[i + 1]

\* a variant that skips only negative durations
SkipIntervalStrict(clip_duration) == clip_duration < 0

\* if clip_duration <= 0: continue
SkipInterval(clip_duration) == clip_duration <= 0

Max(a, b) == IF a >= b THEN a ELSE b

\* a variant that draws the start anywhere in the video
RandomStartsWholeVideo(video_duration, clip_duration) == 0..video_duration

\* the values random.uniform(0, max(0, video_duration - clip_duration)) can take
RandomStarts(video_duration, clip_duration) ==
    0..Max(0, video_duration - clip_duration)

\* a variant that clamps the end of the range to the end of the video
SubclipRequestClamped(random_start, clip_duration, video_duration) ==
    [start |-> random_start,
     end |-> IF random_start + clip_duration <= video_duration
             THEN random_start + clip_duration ELSE video_duration]

\* random_end = random_start + clip_duration; video.subclip(random_start, random_end)
SubclipRequest(random_start, clip_duration, video_duration) ==
    [start |-> random_start, end |-> random_start + clip_duration]

\* the clip subclip returns: its duration is t_end - t_start
Subclip(req) == [start |-> req.start, end |-> req.end, duration |-> req.end - req.start]

\* a variant that puts the new clip first
ClipsPrepend(clips, clip) == <<clip>> \o clips

\* clips.append(clip)
ClipsAppend(clips, clip) == Append(clips, clip)

\* a variant that reports the clips still to do
LoopProgressRemaining(i, total_clips) == ClipMsg(total_clips - i, total_clips)

\* progress_callback(f"{i + 1}/{total_clips} clips processed...")
LoopProgress(i, total_clips) == ClipMsg(i + 1, total_clips)

\* one iteration of: for i in range(len(cut_times) - 1)
Segment(r) ==
    LET s == runs[r]
        cd == ClipDuration(s.cut_times, s.i)
    IN  /\ s.pc = "loop"
        /\ s.i < Len(s.cut_times) - 1
        /\ IF SkipInterval(cd)
           THEN runs' = [runs EXCEPT ![r] = [s EXCEPT !.i = s.i + 1]]
           ELSE \E random_start \in RandomStarts(s.video_duration, cd) :
                  LET req == SubclipRequest(random_start, cd, s.video_duration)
                      t == [s EXCEPT !.requests = Append(@, req)]
                  IN  \/ runs' = [runs EXCEPT ![r] =
                             [Progress(t, LoopProgress(s.i, s.total_clips)) EXCEPT
                                 !.clips = ClipsAppend(s.clips, Subclip(req)),
                                 !.i = s.i + 1]]
                      \/ runs' = [runs EXCEPT ![r] = Fail(t, "subclip")]
        /\ UNCHANGED <<Gui, disk, output_file>>

\* "Concatenating clips...", concatenate_videoclips(clips, method='compose'):
\* the clips one after another; an empty list raises
ConcatStep(s) ==
    LET t == Progress(s, Msg("Concatenating clips..."))
    IN  IF s.clips = <<>> THEN Fail(t, "concatenate")
        ELSE [t EXCEPT !.pc = "merge",
                       !.final_duration = SumSeq([k \in 1..Len(s.clips) |-> s.clips[k].duration])]

Concat(r) ==
    /\ runs[r].pc = "loop"
    /\ runs[r].i >= Len(runs[r].cut_times) - 1
    /\ runs' = [runs EXCEPT ![r] = ConcatStep(@)]
    /\ UNCHANGED <<Gui, disk, output_file>>

\* "Merging audio...", AudioFileClip(audio_path).subclip(0, final_video.duration),
\* CompositeAudioClip, set_audio
Merge(r) ==
    /\ runs[r].pc = "merge"
    /\ \/ runs' = [runs EXCEPT ![r] = [Progress(@, Msg("Merging audio...")) EXCEPT !.pc = "save"]]
       \/ runs' = [runs EXCEPT ![r] = Fail(Progress(@, Msg("Merging audio...")), "merge")]
    /\ UNCHANGED <<Gui, disk, output_file>>

\* "Saving video...", final_video.write_videofile(output_path, ...): it returns
\* with the file complete, or raises before the file is opened, or raises after
\* part of it is on disk
Save(r) ==
    /\ runs[r].pc = "save"
    /\ \/ /\ runs' = [runs EXCEPT ![r] = [Progress(@, Msg("Saving video...")) EXCEPT
                                             !.pc = "completed", !.written = "complete"]]
          /\ output_file' = "complete"
       \/ /\ runs' = [runs EXCEPT ![r] = Fail(Progress(@, Msg("Saving video...")), "write")]
          /\ UNCHANGED output_file
       \/ /\ runs' = [runs EXCEPT ![r] = Fail([Progress(@, Msg("Saving video...")) EXCEPT
                                                  !.written = "partial"], "write")]
          /\ output_file' = "partial"
    /\ UNCHANGED <<Gui, disk>>

\* progress_callback("Process completed!"); messagebox.showinfo("Success", ...)
CompleteStep(s) ==
    [Progress(s, Msg("Process completed!")) EXCEPT
        !.pc = "done", !.notes = Append(@, [kind |-> "showinfo", detail |-> "Success"])]

Complete(r) ==
    /\ runs[r].pc = "completed"
    /\ runs' = [runs EXCEPT ![r] = CompleteStep(@)]
    /\ UNCHANGED <<Gui, disk, output_file>>

ProcessFiles(r) ==
    \/ Load(r)
    \/ Stft(r)
    \/ Peaks(r)
    \/ LoadVideo(r)
    \/ Segment(r)
    \/ Concat(r)
    \/ Merge(r)
    \/ Save(r)
    \/ Complete(r)

\* -------------------------------------------------------------- the GUI
\* browse_file: the dialog returns a path, or "" when cancelled
BrowseAudio ==
    /\ \E file_path \in {"", AudioPath} : audio_entry' = file_path
    /\ UNCHANGED <<video_entry, output_entry, warnings, threads, runs, disk, output_file>>

BrowseVideo ==
    /\ \E file_path \in {"", VideoPath} : video_entry' = file_path
    /\ UNCHANGED <<audio_entry, output_entry, warnings, threads, runs, disk, output_file>>

BrowseOutput ==
    /\ \E file_path \in {"", OutputPath} : output_entry' = file_path
    /\ UNCHANGED <<audio_entry, video_entry, warnings, threads, runs, disk, output_file>>

\* if not audio_path or not video_path or not output_path
MissingPath == audio_entry = "" \/ video_entry = "" \/ output_entry = ""

\* a variant that refuses to start while an earlier run has not finished
start_processing_guarded ==
    /\ IF MissingPath \/ \E r \in RunIds : runs[r].pc \notin {"idle", "done"}
       THEN /\ warnings < MaxWarnings
            /\ warnings' = warnings + 1
            /\ UNCHANGED <<threads, runs>>
       ELSE /\ threads < MaxRuns
            /\ threads' = threads + 1
            /\ runs' = [runs EXCEPT ![threads + 1] =
                           StartedRun(audio_entry, video_entry, output_entry)]
            /\ UNCHANGED warnings
    /\ UNCHANGED <<audio_entry, video_entry, output_entry, disk, output_file>>

start_processing ==
    /\ IF MissingPath
       THEN /\ warnings < MaxWarnings
            /\ warnings' = warnings + 1
            /\ UNCHANGED <<threads, runs>>
       ELSE /\ threads < MaxRuns
            /\ threads' = threads + 1
            /\ runs' = [runs EXCEPT ![threads + 1] =
                           StartedRun(audio_entry, video_entry, output_entry)]
            /\ UNCHANGED warnings
    /\ UNCHANGED <<audio_entry, video_entry, output_entry, disk, output_file>>

\* ------------------------------------------------------ specifications
\* One call of process_files, on any audio and video file within the bounds.
Next == \E r \in RunIds : ProcessFiles(r)

Spec == Init /\ [][Next]_vars

\* The whole program: the window after create_gui, the buttons, and the worker
\* threads; the files on disk are short silent clips.
GuiDisks == {d \in Disks : /\ d.audio.samples <= 1
                           /\ \A k \in 1..Len(d.audio.bass_energy) : d.audio.bass_energy[k] = 0
                           /\ d.video_duration = 1}

InitGui == /\ audio_entry = ""
           /\ video_entry = ""
           /\ output_entry = ""
           /\ warnings = 0
           /\ threads = 0
           /\ disk \in GuiDisks
           /\ runs = [r \in RunIds |-> IdleRun]
           /\ output_file = "absent"

NextGui == \/ BrowseAudio
           \/ BrowseVideo
           \/ BrowseOutput
           \/ start_processing
           \/ \E r \in RunIds : ProcessFiles(r)

SpecGui == InitGui /\ [][NextGui]_vars
\* ============================================================ claims
Reached(s, text) == \E k \in 1..Len(s.msgs) : s.msgs[k].text = text

\* cut_times has been assigned (it always holds at least 0 and the duration)
HasCuts(s) == s.cut_times # <<>>

\* the for loop has run to its end
LoopDone(s) ==
    \/ s.pc = "loop" /\ s.i >= Len(s.cut_times) - 1
    \/ Reached(s, "Concatenating clips...")

IsSorted(c) == \A k \in 1..(Len(c) - 1) : c[k] <= c[k + 1]

\* durations of the first n consecutive cut-time pairs that are > 0, in order
RECURSIVE PositiveDurations(_, _)
PositiveDurations(c, n) ==
    IF n = 0 THEN <<>>
    ELSE PositiveDurations(c, n - 1)
         \o (IF c[n + 1] - c[n] > 0 THEN <<c[n + 1] - c[n]>> ELSE <<>>)

AllPositiveDurations(c) == PositiveDurations(c, Len(c) - 1)

LastError(s) == IF s.notes # <<>> /\ s.notes[Len(s.notes)].kind = "showerror"
                THEN s.notes[Len(s.notes)].detail ELSE ""

\* C1: the cut-time sequence is sorted ascending, starts at 0, ends at the song
\* duration D, lies within [0, D], and its interior is exactly the detected
\* peak timestamps (length = number of peaks + 2).
C1_CutTimes ==
    \A r \in RunIds :
        LET s == runs[r]
            c == s.cut_times
            p == PeakTimes(s.bass_energy)
        IN  HasCuts(s) =>
              /\ IsSorted(c)
              /\ c[1] = 0
              /\ c[Len(c)] = s.song_duration
              /\ \A k \in 1..Len(c) : 0 <= c[k] /\ c[k] <= s.song_duration
              /\ Len(c) = Len(p) + 2
              /\ \A k \in 1..Len(p) : c[k + 1] = p[k]

\* a 10-unit song with peaks at 2 and 6 was cut into [0, 2, 6, 10] and gave
\* three segments of durations 2, 4, 4
C1_Witness ==
    /\ runs[1].song_duration = 10
    /\ PeakTimes(runs[1].bass_energy) = <<2, 6>>
    /\ runs[1].cut_times = <<0, 2, 6, 10>>
    /\ LoopDone(runs[1])
    /\ [k \in 1..Len(runs[1].clips) |-> runs[1].clips[k].duration] = <<2, 4, 4>>

Flat(x) == \A k \in 1..Len(x) : x[k] = x[1]

\* C2 as stated: with no peak found, the cut times are [0, D] and the loop
\* emits exactly one segment, of duration D.
C2_Original ==
    \A r \in RunIds :
        LET s == runs[r]
        IN  (HasCuts(s) /\ find_peaks(s.bass_energy) = <<>>) =>
              /\ s.cut_times = <<0, s.song_duration>>
              /\ LoopDone(s) => /\ Len(s.clips) = 1
                                /\ s.clips[1].duration = s.song_duration

\* C2 amended: a flat curve has no peak; with no peak found the cut times are
\* [0, D]; the loop then emits exactly one segment of duration D when D > 0,
\* and no segment at all when D = 0.
C2_NoPeaks ==
    \A r \in RunIds :
        LET s == runs[r]
        IN  /\ (s.bass_energy # <<>> /\ Flat(s.bass_energy)) => find_peaks(s.bass_energy) = <<>>
            /\ (HasCuts(s) /\ find_peaks(s.bass_energy) = <<>>) =>
                 /\ s.cut_times = <<0, s.song_duration>>
                 /\ (LoopDone(s) /\ s.song_duration > 0) =>
                        /\ Len(s.clips) = 1
                        /\ s.clips[1].duration = s.song_duration
                 /\ (LoopDone(s) /\ s.song_duration = 0) => s.clips = <<>>

\* a curve that is not flat but has no peak, cut into one whole-song segment
C2_Witness ==
    /\ ~Flat(runs[1].bass_energy)
    /\ find_peaks(runs[1].bass_energy) = <<>>
    /\ runs[1].song_duration > 0
    /\ LoopDone(runs[1])
    /\ Len(runs[1].clips) = 1

\* C3: the loop skips every interval of duration <= 0 without raising, and the
\* segments emitted over the intervals handled so far are as many as those of
\* strictly positive duration (over all intervals once the loop has ended).
C3_SkipDegenerate ==
    \A r \in RunIds :
        LET s == runs[r]
        IN  HasCuts(s) =>
              /\ LastError(s) = "subclip" => ClipDuration(s.cut_times, s.i) > 0
              /\ Len(s.clips) = Len(PositiveDurations(s.cut_times, s.i))
              /\ LoopDone(s) => Len(s.clips) = Len(AllPositiveDurations(s.cut_times))

\* a cut-time sequence with a duplicate timestamp went through the loop
C3_Witness ==
    /\ \E k \in 1..(Len(runs[1].cut_times) - 1) : runs[1].cut_times[k] = runs[1].cut_times[k + 1]
    /\ runs[1].pc = "loop"
    /\ runs[1].i = Len(runs[1].cut_times) - 1
    /\ LastError(runs[1]) = ""

\* C4: a segment whose clip_duration fits in the video is sampled inside it:
\* 0 <= random_start, random_start + clip_duration <= video_duration, and
\* random_end - random_start = clip_duration, whatever the random draw.
C4_SampleInBounds ==
    \A r \in RunIds :
        LET s == runs[r]
        IN  \A k \in 1..Len(s.requests) :
              LET cd == AllPositiveDurations(s.cut_times)[k]
              IN  cd <= s.video_duration =>
                    /\ 0 <= s.requests[k].start
                    /\ s.requests[k].start + cd <= s.video_duration
                    /\ s.requests[k].end - s.requests[k].start = cd

\* a fitting segment was drawn at a start other than 0
C4_Witness ==
    \E k \in 1..Len(runs[1].requests) :
        /\ runs[1].requests[k].start > 0
        /\ runs[1].requests[k].end <= runs[1].video_duration

\* C5: the concatenated clips are the positive-duration cut intervals in cut
\* order, and the final video lasts the sum of the segment durations.
C5_ConcatInOrder ==
    \A r \in RunIds :
        LET s == runs[r]
            d == AllPositiveDurations(s.cut_times)
        IN  (HasCuts(s) /\ LoopDone(s)) =>
              /\ Len(s.clips) = Len(d)
              /\ \A k \in 1..Len(d) : s.clips[k].duration = d[k]
              /\ s.pc \in {"merge", "save", "completed"} =>
                    s.final_duration = SumSeq(d)

\* a video of two segments of different durations was concatenated
C5_Witness ==
    /\ runs[1].pc = "merge"
    /\ Len(runs[1].clips) = 2
    /\ runs[1].clips[1].duration # runs[1].clips[2].duration
    /\ runs[1].final_duration = runs[1].clips[1].duration + runs[1].clips[2].duration
FixedStages == <<"Calculating STFT...", "Detecting peak points...", "Loading video...",
                 "Concatenating clips...", "Merging audio...", "Saving video...",
                 "Process completed!">>

IsClipMsg(m) == m.text = "clips processed..."
IsStageMsg(m) == ~IsClipMsg(m)

\* C6: the progress messages of a run come in the fixed stage order (STFT,
\* peak detection, video loaded, per-segment progress with strictly increasing
\* i <= total, concatenation, audio merge, save, completion); at every moment,
\* and so also in a failing run, they are a prefix of that order.
C6_MessageOrder ==
    \A r \in RunIds :
        LET m == runs[r].msgs
            stages == SelectSeq(m, IsStageMsg)
        IN  /\ Len(stages) <= Len(FixedStages)
            /\ \A k \in 1..Len(stages) : stages[k] = Msg(FixedStages[k])
            /\ \A k \in 1..Len(m) :
                 IsClipMsg(m[k]) =>
                   /\ k > 1
                   /\ \/ m[k - 1].text = "Loading video..."
                      \/ IsClipMsg(m[k - 1]) /\ m[k - 1].i < m[k].i
                   /\ m[k].i <= m[k].total
                   /\ m[k].total = runs[r].total_clips

\* a run that went through every stage, with several per-segment messages
C6_Witness ==
    /\ runs[1].pc = "done"
    /\ Reached(runs[1], "Process completed!")
    /\ Len(SelectSeq(runs[1].msgs, IsClipMsg)) >= 2

StageRank(pc) ==
    CASE pc = "idle" -> 0 [] pc = "load" -> 1 [] pc = "stft" -> 2
      [] pc = "peaks" -> 3 [] pc = "video" -> 4 [] pc = "loop" -> 5
      [] pc = "merge" -> 6 [] pc = "save" -> 7 [] pc = "completed" -> 8
      [] pc = "done" -> 9

\* the terminal notifications of a run
OutcomeOK(s) ==
    /\ s.pc # "done" => s.notes = <<>>
    /\ s.pc = "done" =>
         /\ Len(s.notes) = 1
         /\ s.notes[1].kind \in {"showinfo", "showerror"}
         /\ s.notes[1].kind = "showinfo" =>
               /\ s.msgs # <<>>
               /\ s.msgs[Len(s.msgs)] = Msg("Process completed!")
         /\ s.notes[1].kind = "showerror" =>
               /\ s.notes[1].detail # ""
               /\ ~Reached(s, "Process completed!")

\* C7: every run ends with exactly one outcome, the completed message followed
\* by the success notification or a single error notification carrying the
\* failure; once a run has ended nothing more happens in it, and a run only
\* moves forward (no stage is run again).
C7_SingleOutcome ==
    /\ [](\A r \in RunIds : OutcomeOK(runs[r]))
    /\ [][\A r \in RunIds :
            /\ runs[r].pc = "done" => runs'[r] = runs[r]
            /\ runs'[r] # runs[r] =>
                 \/ StageRank(runs'[r].pc) > StageRank(runs[r].pc)
                 \/ /\ runs[r].pc = "loop"
                    /\ runs'[r].pc = "loop"
                    /\ runs'[r].i = runs[r].i + 1]_vars

\* a run that failed in the audio merge and ended with one error notification
C7_Witness ==
    /\ runs[1].pc = "done"
    /\ runs[1].notes = <<[kind |-> "showerror", detail |-> "merge"]>>
    /\ Reached(runs[1], "Merging audio...")

\* C8: a failing run leaves no output: the file is written only by the save
\* step, after everything before it succeeded, and a run that ends with the
\* error notification has written nothing to the output file.
C8_NoPartialOutput ==
    \A r \in RunIds :
        LET s == runs[r]
        IN  /\ s.written # "none" => Reached(s, "Saving video...")
            /\ (s.pc = "done" /\ LastError(s) # "") => s.written = "none"

\* C9: when clip_duration exceeds video_duration the random range is the single
\* point 0, the range requested from subclip is [0, clip_duration] with its end
\* beyond the video, and the interval is neither skipped nor clamped.
C9_OutOfBounds ==
    \A r \in RunIds :
        LET s == runs[r]
            d == AllPositiveDurations(s.cut_times)
        IN  /\ \A k \in 1..Len(s.requests) :
                 d[k] > s.video_duration =>
                   /\ RandomStarts(s.video_duration, d[k]) = {0}
                   /\ s.requests[k] = [start |-> 0, end |-> d[k]]
                   /\ s.requests[k].end > s.video_duration
                   /\ k <= Len(s.clips) => /\ s.clips[k].start = 0
                                           /\ s.clips[k].end = d[k]
            /\ (HasCuts(s) /\ LoopDone(s)) => Len(s.requests) = Len(d)

\* a segment longer than the video was requested and appended
C9_Witness ==
    \E k \in 1..Len(runs[1].clips) :
        /\ runs[1].clips[k].end > runs[1].video_duration
        /\ runs[1].clips[k].start = 0
        /\ runs[1].video_duration > 0

InFlight(s) == s.pc \notin {"idle", "done"}

\* C10: start_processing has no guard against overlapping runs: whenever the
\* three paths are set (and the model still has a thread to give) it can start
\* a thread, also while earlier runs are in flight; with a path empty it
\* starts none.
C10_NoGuard ==
    /\ (~MissingPath /\ threads < MaxRuns) =>
          ENABLED (start_processing /\ threads' = threads + 1
                                    /\ runs'[threads + 1].pc = "load")
    /\ MissingPath => ~ENABLED (start_processing /\ threads' # threads)

\* two runs in flight at once, both writing to the same output path
C10_Witness ==
    /\ threads >= 2
    /\ InFlight(runs[1])
    /\ InFlight(runs[2])
    /\ runs[1].output_path = runs[2].output_path
    /\ runs[1].output_path # ""
====
